---- MODULE Spec2Model ----
(***************************************************************************)
(* Keyword service of the PPC campaign manager: the Campaign / AdGroup /   *)
(* Keyword store and the KeywordService operations that read and write it. *)
(* Money amounts (bid) are integers in the smallest currency unit.         *)
(* Optional fields of a DTO are modelled by the record's DOMAIN: a field   *)
(* that is undefined in the request is absent from the record.             *)
(***************************************************************************)
EXTENDS Integers, Sequences, FiniteSets, TLC

\* ---------------------------------------------------------------- bounds
\* Spec: the hierarchy, two campaigns and several keyword rows, few field values.
MaxCampaigns == 2
MaxAdGroups == 1
MaxKeywords == 2
MaxPatchFields == 2
MaxBulk == 2
MaxFilterFields == 2
\* SpecRow: one campaign and one keyword row, every field over its full range.
MaxRowKeywords == 1
MaxTextLen == 2
MaxBid == 2
\* SpecForm: the ad-group form, its two text fields up to this length.
MaxFormLen == 2
\* SpecSlice: the keyword slice, thunks in flight at once and rows on the server.
MaxPending == 2
MaxSliceKeywords == 2

\* ---------------------------------------------------------------- values
MatchTypes == {"BROAD", "PHRASE", "EXACT"}
Statuses == {"ACTIVE", "PAUSED", "ARCHIVED"}
Chars == {" ", "a"}

\* String.prototype.trim strips white space and line terminators.
WhiteSpace == {" ", "\t", "\n", "\r"}

TextsUpTo(n) == UNION {[1..k -> Chars] : k \in 0..n}

RECURSIVE trimStart(_)
trimStart(s) ==
    IF s # <<>> /\ Head(s) \in WhiteSpace THEN trimStart(Tail(s)) ELSE s

RECURSIVE trimEnd(_)
trimEnd(s) ==
    IF s # <<>> /\ s[Len(s)] \in WhiteSpace
    THEN trimEnd(SubSeq(s, 1, Len(s) - 1))
    ELSE s

trim(s) == trimEnd(trimStart(s))

Has(data, f) == f \in DOMAIN data

Restrict(r, F) == [f \in F |-> r[f]]

\* JavaScript truthiness of an optional number / an optional boolean.
TruthyNumber(data, f) == Has(data, f) /\ data[f] # 0

TruthyBoolean(data, f) == Has(data, f) /\ data[f]

\* ---------------------------------------------------------------- errors
Ok == [kind |-> "ok", msg |-> ""]
ValidationError(m) == [kind |-> "ValidationError", msg |-> m]
NotFoundError(m) == [kind |-> "NotFoundError", msg |-> m]
PrismaError == [kind |-> "PrismaClientKnownRequestError", msg |-> "Foreign key constraint failed"]

\* ---------------------------------------------------------------- state
VARIABLES
    campaigns,   \* set of campaign ids
    adGroups,    \* sequence of ad group rows, in creation order
    keywords,    \* sequence of keyword rows, in creation order
    reply,       \* the settled call that is being answered (operation, arguments,
                 \* result), or Idle when the service is waiting for a request
    dialog,      \* AdGroupFormDialog: its props and component state, and what the
                 \* last handler that ran dispatched
    keywordState,  \* the state of the keyword slice of the frontend store
    thunks       \* the dispatched thunks that have not settled yet, one per slot

vars == <<campaigns, adGroups, keywords, reply, dialog, keywordState, thunks>>

Idle == [op |-> "idle"]

\* ---------------------------------------------------------------- DTOs
\* CreateKeywordDto: adGroupId and isNegative are optional.
CreateKeywordDtos(C, A, T, M, B, N) ==
    {Restrict(d, DOMAIN d \ O) :
        d \in [campaignId : C, adGroupId : A, keywordText : T, matchType : M, bid : B,
               isNegative : N],
        O \in SUBSET {"adGroupId", "isNegative"}}

\* The filters of a listing: every field is optional; at most n are present.
KeywordFilters(A, M, N, n) ==
    {Restrict(d, F) :
        d \in [adGroupId : A, matchType : M, status : Statuses, isNegative : N],
        F \in {G \in SUBSET {"adGroupId", "matchType", "status", "isNegative"} :
                 Cardinality(G) <= n}}

\* UpdateKeywordDto: every field is optional; at most n fields are present.
UpdateKeywordDtos(T, M, B, N, n) ==
    {Restrict(d, F) :
        d \in [keywordText : T, matchType : M, bid : B, status : Statuses,
               isNegative : N],
        F \in {G \in SUBSET {"keywordText", "matchType", "bid", "status", "isNegative"} :
                 Cardinality(G) <= n}}

\* ---------------------------------------------------------------- store
campaignFindUnique(id) == id \in campaigns

adGroupFindUnique(id) == {g \in {adGroups[i] : i \in 1..Len(adGroups)} : g.id = id}

\* Faulty variant of the scoped lookup: the campaign is not part of the filter.
keywordFindById(id, campaignId) == {i \in 1..Len(keywords) : keywords[i].id = id}

keywordFindFirst(id, campaignId) ==
    {i \in 1..Len(keywords) : keywords[i].id = id /\ keywords[i].campaignId = campaignId}

\* Column defaults of a new keyword row.
KeywordDefaults ==
    [status |-> "ACTIVE", impressions |-> 0, clicks |-> 0, conversions |-> 0,
     spend |-> 0, sales |-> 0]

\* The ad group column of a keyword row references an ad group row.
ForeignKeyOk(row) == Has(row, "adGroupId") => adGroupFindUnique(row.adGroupId) # {}

NextId(rows) == Len(rows) + 1

\* useState: no error, both fields empty; the dialog is not open.
NoError == "null"

EmptyForm == [name |-> <<>>, defaultBid |-> <<>>]

DialogClosed ==
    [open |-> FALSE, adGroupId |-> 0, formData |-> EmptyForm, error |-> NoError,
     handler |-> "none", dispatched |-> <<>>]

\* The initialState of the keyword slice; null is NoError / NoKeyword.
NoKeyword == [id |-> 0]

initialState ==
    [keywords |-> <<>>, selectedKeyword |-> NoKeyword, loading |-> FALSE,
     error |-> NoError]

Free == [type |-> "free"]

NoThunks == [slot \in 1..MaxPending |-> Free]

Init ==
    /\ campaigns = {}
    /\ adGroups = <<>>
    /\ keywords = <<>>
    /\ reply = Idle
    /\ dialog = DialogClosed
    /\ keywordState = initialState
    /\ thunks = NoThunks

\* ---------------------------------------------------------------- campaigns, ad groups
createCampaign ==
    /\ reply = Idle
    /\ campaigns' = campaigns \cup {Cardinality(campaigns) + 1}
    /\ reply' = [op |-> "createCampaign", result |-> Ok]
    /\ UNCHANGED <<keywordState, thunks, dialog, adGroups, keywords>>

createAdGroup(campaignId) ==
    /\ reply = Idle
    /\ IF campaignFindUnique(campaignId)
       THEN /\ adGroups' = Append(adGroups, [id |-> NextId(adGroups), campaignId |-> campaignId])
            /\ reply' = [op |-> "createAdGroup", campaignId |-> campaignId, result |-> Ok]
       ELSE /\ adGroups' = adGroups
            /\ reply' = [op |-> "createAdGroup", campaignId |-> campaignId,
                         result |-> NotFoundError("Campaign not found")]
    /\ UNCHANGED <<keywordState, thunks, dialog, campaigns, keywords>>

\* ---------------------------------------------------------------- createKeyword
\* Faulty variants of the bid check: bid = 0 accepted; isNegative ignored.
CreateBidInvalidStrict(data) == ~TruthyBoolean(data, "isNegative") /\ data.bid < 0

CreateBidInvalidAlways(data) == data.bid <= 0

CreateBidInvalid(data) == ~TruthyBoolean(data, "isNegative") /\ data.bid <= 0

TextInvalid(text) == trim(text) = <<>>

AdGroupMissing(data) ==
    TruthyNumber(data, "adGroupId") /\ adGroupFindUnique(data.adGroupId) = {}

\* Faulty variants of the ownership check: check dropped; comparison inverted.
AdGroupForeignNever(data) == FALSE

AdGroupForeignInverted(data) ==
    /\ TruthyNumber(data, "adGroupId")
    /\ \E g \in adGroupFindUnique(data.adGroupId) : g.campaignId = data.campaignId

AdGroupForeign(data) ==
    /\ TruthyNumber(data, "adGroupId")
    /\ \E g \in adGroupFindUnique(data.adGroupId) : g.campaignId # data.campaignId

\* Faulty variant of the create payload: the ad group is left out.
CreateDataNoAdGroup(data) ==
    [campaignId |-> data.campaignId,
     keywordText |-> trim(data.keywordText),
     matchType |-> data.matchType,
     bid |-> data.bid,
     isNegative |-> TruthyBoolean(data, "isNegative")]

\* Faulty variant of the create payload: the text is stored as received.
CreateDataUntrimmed(data) ==
    [campaignId |-> data.campaignId,
     keywordText |-> data.keywordText,
     matchType |-> data.matchType,
     bid |-> data.bid,
     isNegative |-> TruthyBoolean(data, "isNegative")]
    @@ Restrict(data, DOMAIN data \cap {"adGroupId"})

CreateData(data) ==
    [campaignId |-> data.campaignId,
     keywordText |-> trim(data.keywordText),
     matchType |-> data.matchType,
     bid |-> data.bid,
     isNegative |-> TruthyBoolean(data, "isNegative")]
    @@ Restrict(data, DOMAIN data \cap {"adGroupId"})

keywordCreate(kws, fields) ==
    IF ForeignKeyOk(fields)
    THEN [result |-> Ok,
          keywords |-> Append(kws, [id |-> NextId(kws)] @@ fields @@ KeywordDefaults)]
    ELSE [result |-> PrismaError, keywords |-> kws]

\* Faulty variant: the campaign and the ad group are looked up before the
\* request's own fields are validated.
createKeywordOnLookupFirst(kws, data) ==
    IF ~campaignFindUnique(data.campaignId)
    THEN [result |-> NotFoundError("Campaign not found"), keywords |-> kws]
    ELSE IF AdGroupMissing(data)
    THEN [result |-> NotFoundError("Ad group not found"), keywords |-> kws]
    ELSE IF AdGroupForeign(data)
    THEN [result |-> ValidationError("Ad group does not belong to the specified campaign"),
          keywords |-> kws]
    ELSE IF CreateBidInvalid(data)
    THEN [result |-> ValidationError("Bid must be greater than 0"), keywords |-> kws]
    ELSE IF TextInvalid(data.keywordText)
    THEN [result |-> ValidationError("Keyword text cannot be empty"), keywords |-> kws]
    ELSE keywordCreate(kws, CreateData(data))

createKeywordOn(kws, data) ==
    IF CreateBidInvalid(data)
    THEN [result |-> ValidationError("Bid must be greater than 0"), keywords |-> kws]
    ELSE IF TextInvalid(data.keywordText)
    THEN [result |-> ValidationError("Keyword text cannot be empty"), keywords |-> kws]
    ELSE IF ~campaignFindUnique(data.campaignId)
    THEN [result |-> NotFoundError("Campaign not found"), keywords |-> kws]
    ELSE IF AdGroupMissing(data)
    THEN [result |-> NotFoundError("Ad group not found"), keywords |-> kws]
    ELSE IF AdGroupForeign(data)
    THEN [result |-> ValidationError("Ad group does not belong to the specified campaign"),
          keywords |-> kws]
    ELSE keywordCreate(kws, CreateData(data))

createKeyword(data) ==
    LET out == createKeywordOn(keywords, data) IN
    /\ reply = Idle
    /\ keywords' = out.keywords
    /\ reply' = [op |-> "createKeyword", data |-> data, result |-> out.result,
                 value |-> IF out.result.kind = "ok"
                           THEN <<out.keywords[Len(out.keywords)]>> ELSE <<>>]
    /\ UNCHANGED <<keywordState, thunks, dialog, campaigns, adGroups>>

\* ---------------------------------------------------------------- getKeywordById
getKeywordById(id, campaignId) ==
    /\ reply = Idle
    /\ reply' = [op |-> "getKeywordById", id |-> id, campaignId |-> campaignId,
                 result |-> IF keywordFindFirst(id, campaignId) = {}
                            THEN NotFoundError("Keyword not found") ELSE Ok]
    /\ UNCHANGED <<keywordState, thunks, dialog, campaigns, adGroups, keywords>>

\* ---------------------------------------------------------------- getCampaignKeywords
\* The where object: campaignId, and one spread per filter that passes its test.
KeywordWhere(campaignId, filters) ==
    [campaignId |-> campaignId]
    @@ (IF TruthyNumber(filters, "adGroupId")
        THEN [adGroupId |-> filters.adGroupId] ELSE <<>>)
    @@ Restrict(filters, DOMAIN filters \cap {"matchType", "status", "isNegative"})

Reverse(seq) == [i \in 1..Len(seq) |-> seq[Len(seq) + 1 - i]]

WhereMatches(row, where) == \A f \in DOMAIN where : Has(row, f) /\ row[f] = where[f]

\* findMany({where, orderBy: {createdAt: 'desc'}}): rows are stored in creation order.
keywordFindMany(where) ==
    LET Test(row) == WhereMatches(row, where) IN Reverse(SelectSeq(keywords, Test))

getCampaignKeywords(campaignId, filters) ==
    /\ reply = Idle
    /\ reply' = [op |-> "getCampaignKeywords", campaignId |-> campaignId,
                 filters |-> filters, result |-> Ok,
                 value |-> keywordFindMany(KeywordWhere(campaignId, filters))]
    /\ UNCHANGED <<keywordState, thunks, dialog, campaigns, adGroups, keywords>>

\* ---------------------------------------------------------------- updateKeyword
\* Faulty variant of the resulting flag: the patch's isNegative is ignored.
willBeNegativeStored(existing, data) == existing.isNegative

willBeNegative(existing, data) ==
    IF Has(data, "isNegative") THEN data.isNegative ELSE existing.isNegative

UpdateBidInvalid(existing, data) ==
    Has(data, "bid") /\ ~willBeNegative(existing, data) /\ data.bid <= 0

UpdateTextInvalid(data) == Has(data, "keywordText") /\ TextInvalid(data.keywordText)

\* Faulty variant of the update payload: an absent status is reset to its default.
UpdateDataResetStatus(data) ==
    (IF Has(data, "keywordText") /\ data.keywordText # <<>>
     THEN [keywordText |-> trim(data.keywordText)] ELSE <<>>)
    @@ Restrict(data, DOMAIN data \cap {"matchType", "bid", "status", "isNegative"})
    @@ [status |-> "ACTIVE"]

\* Faulty variant: the status of the patch is not handed to the store.
UpdateDataNoStatus(data) ==
    (IF Has(data, "keywordText") /\ data.keywordText # <<>>
     THEN [keywordText |-> trim(data.keywordText)] ELSE <<>>)
    @@ Restrict(data, DOMAIN data \cap {"matchType", "bid", "isNegative"})

\* The data object handed to prisma.keyword.update: one spread per patch field.
UpdateData(data) ==
    (IF Has(data, "keywordText") /\ data.keywordText # <<>>
     THEN [keywordText |-> trim(data.keywordText)] ELSE <<>>)
    @@ Restrict(data, DOMAIN data \cap {"matchType", "bid", "status", "isNegative"})

keywordUpdate(kws, id, fields) ==
    [i \in 1..Len(kws) |-> IF kws[i].id = id THEN fields @@ kws[i] ELSE kws[i]]

updateKeywordOn(kws, id, campaignId, data) ==
    IF keywordFindFirst(id, campaignId) = {}
    THEN [result |-> NotFoundError("Keyword not found"), keywords |-> kws]
    ELSE LET existingKeyword == kws[CHOOSE i \in keywordFindFirst(id, campaignId) : TRUE] IN
         IF UpdateBidInvalid(existingKeyword, data)
         THEN [result |-> ValidationError("Bid must be greater than 0"), keywords |-> kws]
         ELSE IF UpdateTextInvalid(data)
         THEN [result |-> ValidationError("Keyword text cannot be empty"), keywords |-> kws]
         ELSE [result |-> Ok, keywords |-> keywordUpdate(kws, id, UpdateData(data))]

updateKeyword(id, campaignId, data) ==
    LET out == updateKeywordOn(keywords, id, campaignId, data) IN
    /\ reply = Idle
    /\ keywords' = out.keywords
    /\ reply' = [op |-> "updateKeyword", id |-> id, campaignId |-> campaignId,
                 data |-> data, result |-> out.result]
    /\ UNCHANGED <<keywordState, thunks, dialog, campaigns, adGroups>>

\* Faulty variant of deleteKeyword: the row is removed instead of archived.
deleteKeywordHard(id, campaignId) ==
    /\ reply = Idle
    /\ IF keywordFindFirst(id, campaignId) = {}
       THEN /\ keywords' = keywords
            /\ reply' = [op |-> "deleteKeyword", id |-> id, campaignId |-> campaignId,
                         result |-> NotFoundError("Keyword not found")]
       ELSE /\ keywords' = SelectSeq(keywords, LAMBDA k : k.id # id)
            /\ reply' = [op |-> "deleteKeyword", id |-> id, campaignId |-> campaignId,
                         result |-> Ok]
    /\ UNCHANGED <<keywordState, thunks, dialog, campaigns, adGroups>>

\* ---------------------------------------------------------------- deleteKeyword
deleteKeyword(id, campaignId) ==
    /\ reply = Idle
    /\ IF keywordFindFirst(id, campaignId) = {}
       THEN /\ keywords' = keywords
            /\ reply' = [op |-> "deleteKeyword", id |-> id, campaignId |-> campaignId,
                         result |-> NotFoundError("Keyword not found")]
       ELSE /\ keywords' = keywordUpdate(keywords, id, [status |-> "ARCHIVED"])
            /\ reply' = [op |-> "deleteKeyword", id |-> id, campaignId |-> campaignId,
                         result |-> Ok]
    /\ UNCHANGED <<keywordState, thunks, dialog, campaigns, adGroups>>

\* ---------------------------------------------------------------- getKeywordStats
Digits == <<"0", "1", "2", "3", "4", "5", "6", "7", "8", "9">>

\* Number.prototype.toString of a natural number.
RECURSIVE NatToString(_)
NatToString(n) ==
    IF n < 10 THEN Digits[n + 1] ELSE NatToString(n \div 10) \o Digits[(n % 10) + 1]

\* Decimal.prototype.toString of an amount held in hundredths: no trailing zeros.
DecimalToString(cents) ==
    IF cents % 100 = 0 THEN NatToString(cents \div 100)
    ELSE IF cents % 10 = 0
    THEN NatToString(cents \div 100) \o "." \o Digits[((cents % 100) \div 10) + 1]
    ELSE NatToString(cents \div 100) \o "." \o Digits[((cents % 100) \div 10) + 1]
         \o Digits[(cents % 10) + 1]

Abs(x) == IF x < 0 THEN 0 - x ELSE x

\* The integers nearest to num / den (num >= 0, den > 0); two of them at a tie,
\* where the binary value of the quotient decides between them.
Nearest(num, den) ==
    {n \in {num \div den, (num \div den) + 1} : 2 * Abs((n * den) - num) <= den}

\* Faulty variant of toFixed(2): the digits after the second are cut off.
toFixedTruncating(num, den) ==
    {NatToString(n \div 100) \o "." \o Digits[((n % 100) \div 10) + 1]
       \o Digits[(n % 10) + 1] : n \in {(100 * num) \div den}}

\* (num / den).toFixed(2): the quotient rounded to hundredths, with two decimals.
toFixed(num, den) ==
    {NatToString(n \div 100) \o "." \o Digits[((n % 100) \div 10) + 1]
       \o Digits[(n % 10) + 1] : n \in Nearest(100 * num, den)}

\* spend and sales are held in hundredths of the currency unit.
Ctr(keyword) ==
    IF keyword.impressions > 0
    THEN toFixed(keyword.clicks * 100, keyword.impressions) ELSE {"0.00"}

Cvr(keyword) ==
    IF keyword.clicks > 0
    THEN toFixed(keyword.conversions * 100, keyword.clicks) ELSE {"0.00"}

Cpc(keyword) ==
    IF keyword.clicks > 0 THEN toFixed(keyword.spend, 100 * keyword.clicks) ELSE {"0.00"}

Acos(keyword) ==
    IF keyword.sales > 0 THEN toFixed(keyword.spend * 100, keyword.sales) ELSE {"0.00"}

getKeywordStats(id, campaignId) ==
    /\ reply = Idle
    /\ IF keywordFindFirst(id, campaignId) = {}
       THEN reply' = [op |-> "getKeywordStats", id |-> id, campaignId |-> campaignId,
                      result |-> NotFoundError("Keyword not found"), value |-> <<>>]
       ELSE LET keyword == keywords[CHOOSE i \in keywordFindFirst(id, campaignId) : TRUE]
            IN \E ctr \in Ctr(keyword), cvr \in Cvr(keyword), cpc \in Cpc(keyword),
                  acos \in Acos(keyword) :
                  reply' = [op |-> "getKeywordStats", id |-> id,
                            campaignId |-> campaignId, result |-> Ok,
                            value |-> [impressions |-> NatToString(keyword.impressions),
                                       clicks |-> keyword.clicks,
                                       conversions |-> keyword.conversions,
                                       spend |-> DecimalToString(keyword.spend),
                                       sales |-> DecimalToString(keyword.sales),
                                       ctr |-> ctr, cvr |-> cvr, cpc |-> cpc,
                                       acos |-> acos]]
    /\ UNCHANGED <<keywordState, thunks, dialog, campaigns, adGroups, keywords>>

\* ---------------------------------------------------------------- bulkCreateKeywords
Orders(n) == {o \in [1..n -> 1..n] : \A i, j \in 1..n : o[i] = o[j] => i = j}

\* Faulty variant: the entries are created one after the other and the first
\* failure ends the call.
RECURSIVE bulkInsertUntilFailure(_, _, _)
bulkInsertUntilFailure(kws, list, order) ==
    IF order = <<>> THEN kws
    ELSE LET out == createKeywordOn(kws, list[Head(order)])
         IN IF out.result.kind # "ok" THEN kws
            ELSE bulkInsertUntilFailure(out.keywords, list, Tail(order))

RECURSIVE bulkInsert(_, _, _)
bulkInsert(kws, list, order) ==
    IF order = <<>> THEN kws
    ELSE bulkInsert(createKeywordOn(kws, list[Head(order)]).keywords, list, Tail(order))

\* Entries whose promise is rejected before createKeyword first awaits the store.
RejectedEarly(list) ==
    {i \in 1..Len(list) : CreateBidInvalid(list[i]) \/ TextInvalid(list[i].keywordText)}

Rejected(list) ==
    {i \in 1..Len(list) : createKeywordOn(keywords, list[i]).result.kind # "ok"}

Min(S) == CHOOSE m \in S : \A k \in S : m <= k

\* Promise.all settles with the first rejection: the lowest index among the entries
\* rejected before any await, otherwise whichever store round trip fails first.
bulkResults(list) ==
    IF Rejected(list) = {} THEN {Ok}
    ELSE IF RejectedEarly(list) # {}
    THEN {createKeywordOn(keywords, list[Min(RejectedEarly(list))]).result}
    ELSE {createKeywordOn(keywords, list[i]).result : i \in Rejected(list)}

bulkCreateKeywords(list) ==
    /\ reply = Idle
    /\ \E order \in Orders(Len(list)), result \in bulkResults(list) :
          /\ keywords' = bulkInsert(keywords, list, order)
          /\ reply' = [op |-> "bulkCreateKeywords", keywords |-> list, result |-> result]
    /\ UNCHANGED <<keywordState, thunks, dialog, campaigns, adGroups>>

\* ---------------------------------------------------------------- errorHandler
\* The classes derived from AppError, and the statusCode each one carries.
AppErrorKinds == {"ValidationError", "NotFoundError", "ConflictError"}

statusCode(err) ==
    CASE err.kind = "ValidationError" -> 400
      [] err.kind = "NotFoundError" -> 404
      [] err.kind = "ConflictError" -> 409

\* Faulty variant: no branch for AppError, whose message is lost.
errorResponseGeneric(err) ==
    IF err.kind = "PrismaClientKnownRequestError"
    THEN [statusCode |-> 400,
          body |-> [status |-> "error", message |-> "Database operation failed"]]
    ELSE [statusCode |-> 500,
          body |-> [status |-> "error", message |-> "Internal server error"]]

\* What errorHandler hands to res.status(...).json(...).
errorResponse(err) ==
    IF err.kind \in AppErrorKinds
    THEN [statusCode |-> statusCode(err),
          body |-> [status |-> "error", message |-> err.msg]]
    ELSE IF err.kind = "PrismaClientKnownRequestError"
    THEN [statusCode |-> 400,
          body |-> [status |-> "error", message |-> "Database operation failed"]]
    ELSE [statusCode |-> 500,
          body |-> [status |-> "error", message |-> "Internal server error"]]

\* The error a service call was rejected with is passed on to errorHandler.
errorHandler ==
    /\ reply # Idle
    /\ IF reply.op = "response" THEN FALSE ELSE reply.result.kind # "ok"
    /\ reply' = [op |-> "response", err |-> reply.result] @@ errorResponse(reply.result)
    /\ UNCHANGED <<keywordState, thunks, dialog, campaigns, adGroups, keywords>>

\* ---------------------------------------------------------------- response
\* The transport layer answers the request: a fulfilled call directly, a rejected
\* one with what errorHandler wrote; the service is ready for the next request.
sendResponse ==
    /\ reply # Idle
    /\ IF reply.op = "response" THEN TRUE ELSE reply.result.kind = "ok"
    /\ reply' = Idle
    /\ UNCHANGED <<keywordState, thunks, dialog, campaigns, adGroups, keywords>>

\* ---------------------------------------------------------------- Spec: the hierarchy
CampaignIds == 1..MaxCampaigns
AdGroupIds == 0..MaxAdGroups
KeywordIds == 1..MaxKeywords

HierCreateDtos ==
    CreateKeywordDtos(CampaignIds, AdGroupIds, TextsUpTo(1), {"BROAD"}, 0..1, {FALSE})

HierUpdateDtos == UpdateKeywordDtos(TextsUpTo(1), {"BROAD"}, 0..1, {FALSE}, MaxPatchFields)

BulkEntries(dtos) == {d \in dtos : d.keywordText = <<"a">> /\ ~Has(d, "adGroupId")}

BulkLists(dtos) == UNION {[1..n -> BulkEntries(dtos)] : n \in 0..MaxBulk}

HierBulkLists == BulkLists(HierCreateDtos)

HierFilters == KeywordFilters(AdGroupIds, MatchTypes, BOOLEAN, MaxFilterFields)

Next ==
    \/ Cardinality(campaigns) < MaxCampaigns /\ createCampaign
    \/ \E c \in CampaignIds : Len(adGroups) < MaxAdGroups /\ createAdGroup(c)
    \/ \E d \in HierCreateDtos : createKeyword(d) /\ Len(keywords') <= MaxKeywords
    \/ \E id \in KeywordIds, c \in CampaignIds : getKeywordById(id, c)
    \/ \E c \in CampaignIds, f \in HierFilters : getCampaignKeywords(c, f)
    \/ \E id \in KeywordIds, c \in CampaignIds, d \in HierUpdateDtos : updateKeyword(id, c, d)
    \/ \E id \in KeywordIds, c \in CampaignIds : deleteKeyword(id, c)
    \/ \E l \in HierBulkLists : bulkCreateKeywords(l) /\ Len(keywords') <= MaxKeywords
    \/ errorHandler
    \/ sendResponse

Spec == Init /\ [][Next]_vars

\* ---------------------------------------------------------------- SpecRow: one row
RowCampaignIds == 1..1
RowKeywordIds == 1..(MaxRowKeywords + 1)
RowBids == -1..MaxBid

RowCreateDtos ==
    CreateKeywordDtos(RowCampaignIds, AdGroupIds, TextsUpTo(MaxTextLen), MatchTypes, RowBids,
                      BOOLEAN)

RowUpdateDtos ==
    UpdateKeywordDtos(TextsUpTo(MaxTextLen), MatchTypes, RowBids, BOOLEAN, MaxPatchFields)

RowBulkLists == BulkLists({d \in RowCreateDtos : d.matchType = "EXACT"})

NextRow ==
    \/ Cardinality(campaigns) < Cardinality(RowCampaignIds) /\ createCampaign
    \/ \E c \in RowCampaignIds : Len(adGroups) < MaxAdGroups /\ createAdGroup(c)
    \/ \E d \in RowCreateDtos : createKeyword(d) /\ Len(keywords') <= MaxRowKeywords
    \/ \E id \in RowKeywordIds, c \in RowCampaignIds : getKeywordById(id, c)
    \/ \E id \in RowKeywordIds, c \in RowCampaignIds, d \in RowUpdateDtos :
          updateKeyword(id, c, d)
    \/ \E id \in RowKeywordIds, c \in RowCampaignIds : deleteKeyword(id, c)
    \/ \E l \in RowBulkLists : bulkCreateKeywords(l) /\ Len(keywords') <= MaxRowKeywords
    \/ errorHandler
    \/ sendResponse

SpecRow == Init /\ [][NextRow]_vars

\* ---------------------------------------------------------------- SpecStats: metrics
\* One stored keyword whose counters were written by the reporting side.
StatImpressions == {0, 3, 800, 1000}
StatClicks == {0, 1, 2, 50}
StatConversions == {0, 1, 5}
StatSpend == {0, 1, 2500}
StatSales == {0, 3, 10000}
StatKeywordIds == 1..(MaxRowKeywords + 1)

StatCounters ==
    [impressions : StatImpressions, clicks : StatClicks, conversions : StatConversions,
     spend : StatSpend, sales : StatSales]

StatSeed ==
    [campaignId |-> 1, keywordText |-> <<"a">>, matchType |-> "EXACT", bid |-> 1]

InitStats ==
    /\ campaigns = {StatSeed.campaignId}
    /\ adGroups = <<>>
    /\ \E counters \in StatCounters :
          keywords = <<counters @@ keywordCreate(<<>>, CreateData(StatSeed)).keywords[1]>>
    /\ reply = Idle
    /\ dialog = DialogClosed
    /\ keywordState = initialState
    /\ thunks = NoThunks

NextStats ==
    \/ \E id \in StatKeywordIds, c \in RowCampaignIds : getKeywordStats(id, c)
    \/ errorHandler
    \/ sendResponse

SpecStats == InitStats /\ [][NextStats]_vars

\* ---------------------------------------------------------------- AdGroupFormDialog
FormChars == {" ", "-", "0", "1", "x"}
NameTexts == TextsUpTo(MaxFormLen)
BidTexts == UNION {[1..k -> FormChars] : k \in 0..MaxFormLen}

DigitChars == {Digits[i] : i \in 1..Len(Digits)}

DigitValue(c) == CHOOSE d \in 0..9 : Digits[d + 1] = c

RECURSIVE LeadingDigits(_)
LeadingDigits(s) ==
    IF s # <<>> /\ Head(s) \in DigitChars
    THEN <<Head(s)>> \o LeadingDigits(Tail(s)) ELSE <<>>

RECURSIVE DecimalValue(_)
DecimalValue(d) ==
    IF d = <<>> THEN 0
    ELSE (10 * DecimalValue(SubSeq(d, 1, Len(d) - 1))) + DigitValue(d[Len(d)])

NaN == [nan |-> TRUE, value |-> 0]

\* parseFloat over FormChars: leading white space is skipped, then an optional
\* sign and the longest run of digits are read; what follows is ignored.
parseFloat(s) ==
    LET t == trimStart(s)
        negative == t # <<>> /\ Head(t) = "-"
        d == LeadingDigits(IF negative THEN Tail(t) ELSE t)
    IN IF d = <<>> THEN NaN
       ELSE [nan |-> FALSE,
             value |-> IF negative THEN 0 - DecimalValue(d) ELSE DecimalValue(d)]

\* Number.prototype.toString of a natural number, as a text of the form.
RECURSIVE NatToText(_)
NatToText(n) ==
    IF n < 10 THEN <<Digits[n + 1]>> ELSE Append(NatToText(n \div 10), Digits[(n % 10) + 1])

\* The props of the dialog and the ad groups of the store slice it selects.
DialogCampaignId == 1
DialogAdGroupIds == 0..(MaxAdGroups + 1)
SliceAdGroups == {[id |-> 1, campaignId |-> 1, name |-> <<"a">>, defaultBid |-> 1]}

\* The messages a rejected thunk can carry; the empty one is falsy.
RejectionMessages == {"", "Request failed with status code 400"}

\* The parent opens the dialog for adGroupId (0: none); the effect loads the form.
openDialog(adGroupId) ==
    /\ ~dialog.open
    /\ LET found == {ag \in SliceAdGroups : ag.id = adGroupId}
           loaded == IF adGroupId # 0
                     THEN IF found # {}
                          THEN LET adGroup == CHOOSE ag \in found : TRUE
                               IN [name |-> adGroup.name,
                                   defaultBid |-> NatToText(adGroup.defaultBid)]
                          ELSE dialog.formData
                     ELSE EmptyForm
       IN dialog' = [dialog EXCEPT !.open = TRUE, !.adGroupId = adGroupId,
                                   !.formData = loaded, !.handler = "openDialog",
                                   !.dispatched = <<>>]
    /\ UNCHANGED <<keywordState, thunks, campaigns, adGroups, keywords, reply>>

handleChange(field, value) ==
    /\ dialog.open
    /\ dialog' = [dialog EXCEPT !.formData[field] = value, !.error = NoError,
                                !.handler = "handleChange", !.dispatched = <<>>]
    /\ UNCHANGED <<keywordState, thunks, campaigns, adGroups, keywords, reply>>

NameInvalid(name) == trim(name) = <<>>

\* Faulty variant of the bid test: only NaN is refused.
DefaultBidInvalidNaNOnly(defaultBid) == defaultBid.nan

DefaultBidInvalid(defaultBid) == defaultBid.nan \/ defaultBid.value <= 0

\* The thunk the form dispatches: updateAdGroup when adGroupId is set, else createAdGroup.
SubmitThunk(adGroupId, name, defaultBid) ==
    IF adGroupId # 0
    THEN [type |-> "updateAdGroup", id |-> adGroupId, campaignId |-> DialogCampaignId,
          data |-> [name |-> trim(name), defaultBid |-> defaultBid]]
    ELSE [type |-> "createAdGroup", campaignId |-> DialogCampaignId,
          name |-> trim(name), defaultBid |-> defaultBid]

handleSubmit ==
    /\ dialog.open
    /\ LET defaultBid == parseFloat(dialog.formData.defaultBid) IN
       IF NameInvalid(dialog.formData.name)
       THEN dialog' = [dialog EXCEPT !.error = "Ad group name is required",
                                     !.handler = "handleSubmit", !.dispatched = <<>>]
       ELSE IF DefaultBidInvalid(defaultBid)
       THEN dialog' = [dialog EXCEPT !.error = "Default bid must be greater than 0",
                                     !.handler = "handleSubmit", !.dispatched = <<>>]
       ELSE LET thunk == SubmitThunk(dialog.adGroupId, dialog.formData.name,
                                     defaultBid.value)
            IN \/ dialog' = [dialog EXCEPT !.open = FALSE, !.formData = EmptyForm,
                                           !.error = NoError,
                                           !.handler = "handleSubmit",
                                           !.dispatched = <<thunk>>]
               \/ \E message \in RejectionMessages :
                     dialog' = [dialog EXCEPT
                                  !.error = IF message # "" THEN message
                                            ELSE "Failed to save ad group",
                                  !.handler = "handleSubmit",
                                  !.dispatched = <<thunk>>]
    /\ UNCHANGED <<keywordState, thunks, campaigns, adGroups, keywords, reply>>

handleClose ==
    /\ dialog.open
    /\ dialog' = [dialog EXCEPT !.open = FALSE, !.formData = EmptyForm,
                                !.error = NoError, !.handler = "handleClose",
                                !.dispatched = <<>>]
    /\ UNCHANGED <<keywordState, thunks, campaigns, adGroups, keywords, reply>>

NextForm ==
    \/ \E id \in DialogAdGroupIds : openDialog(id)
    \/ \E name \in NameTexts : handleChange("name", name)
    \/ \E bid \in BidTexts : handleChange("defaultBid", bid)
    \/ handleSubmit
    \/ handleClose

SpecForm == Init /\ [][NextForm]_vars

\* ---------------------------------------------------------------- keywordSlice
\* The pending case of every thunk.
pending(state) == [state EXCEPT !.loading = TRUE, !.error = NoError]

\* fetchCampaignKeywords.fulfilled and fetchAdGroupKeywords.fulfilled.
fetchKeywordsFulfilled(state, payload) ==
    [state EXCEPT !.loading = FALSE, !.keywords = payload]

createKeywordFulfilled(state, payload) ==
    [state EXCEPT !.loading = FALSE, !.keywords = Append(state.keywords, payload)]

\* Array.prototype.findIndex: the first index whose entry has the id, or -1.
findIndex(list, id) ==
    IF \E i \in 1..Len(list) : list[i].id = id
    THEN CHOOSE i \in 1..Len(list) :
            list[i].id = id /\ \A j \in 1..(i - 1) : list[j].id # id
    ELSE -1

updateKeywordFulfilled(state, payload) ==
    LET index == findIndex(state.keywords, payload.id) IN
    IF index # -1
    THEN [state EXCEPT !.loading = FALSE, !.keywords[index] = payload]
    ELSE [state EXCEPT !.loading = FALSE]

deleteKeywordFulfilled(state, payload) ==
    LET Kept(k) == k.id # payload IN
    [state EXCEPT !.loading = FALSE, !.keywords = SelectSeq(state.keywords, Kept)]

FailureMessage(type) ==
    CASE type \in {"fetchCampaignKeywords", "fetchAdGroupKeywords"} ->
            "Failed to fetch keywords"
      [] type = "createKeyword" -> "Failed to create keyword"
      [] type = "updateKeyword" -> "Failed to update keyword"
      [] type = "deleteKeyword" -> "Failed to delete keyword"

\* The rejected case of every thunk: action.error.message || the thunk's default.
rejected(state, type, message) ==
    [state EXCEPT !.loading = FALSE,
                  !.error = IF message # "" THEN message ELSE FailureMessage(type)]

fulfilled(state, type, payload) ==
    CASE type \in {"fetchCampaignKeywords", "fetchAdGroupKeywords"} ->
            fetchKeywordsFulfilled(state, payload)
      [] type = "createKeyword" -> createKeywordFulfilled(state, payload)
      [] type = "updateKeyword" -> updateKeywordFulfilled(state, payload)
      [] type = "deleteKeyword" -> deleteKeywordFulfilled(state, payload)

selectKeyword(payload) ==
    /\ keywordState' = [keywordState EXCEPT !.selectedKeyword = payload]
    /\ UNCHANGED <<campaigns, adGroups, keywords, reply, dialog, thunks>>

clearError ==
    /\ keywordState.error # NoError
    /\ keywordState' = [keywordState EXCEPT !.error = NoError]
    /\ UNCHANGED <<campaigns, adGroups, keywords, reply, dialog, thunks>>

\* dispatch(thunk(arg)): the pending case runs at once and the request leaves.
dispatchThunk(slot, type, arg) ==
    /\ thunks[slot] = Free
    /\ thunks' = [thunks EXCEPT ![slot] = [type |-> type, arg |-> arg, phase |-> "sent"]]
    /\ keywordState' = pending(keywordState)
    /\ UNCHANGED <<campaigns, adGroups, keywords, reply, dialog>>

\* What the service does with the request of a thunk: the result of the call,
\* the rows after it, and the value the thunk's payload creator returns.
serviceCall(type, arg) ==
    CASE type = "fetchCampaignKeywords" ->
            [result |-> Ok, keywords |-> keywords,
             payload |-> keywordFindMany(KeywordWhere(arg, <<>>))]
      [] type = "fetchAdGroupKeywords" ->
            [result |-> Ok, keywords |-> keywords,
             payload |-> keywordFindMany(KeywordWhere(arg.campaignId,
                                                      [adGroupId |-> arg.adGroupId]))]
      [] type = "createKeyword" ->
            LET out == createKeywordOn(keywords, arg)
            IN out @@ [payload |-> IF out.result.kind = "ok"
                                   THEN out.keywords[Len(out.keywords)] ELSE NoKeyword]
      [] type = "updateKeyword" ->
            LET out == updateKeywordOn(keywords, arg.id, arg.campaignId, arg.data)
            IN out @@ [payload |-> IF out.result.kind = "ok"
                                   THEN out.keywords[findIndex(out.keywords, arg.id)]
                                   ELSE NoKeyword]
      [] type = "deleteKeyword" ->
            IF keywordFindFirst(arg.id, arg.campaignId) = {}
            THEN [result |-> NotFoundError("Keyword not found"), keywords |-> keywords,
                  payload |-> arg.id]
            ELSE [result |-> Ok,
                  keywords |-> keywordUpdate(keywords, arg.id, [status |-> "ARCHIVED"]),
                  payload |-> arg.id]

\* The message of the error axios raises for a response with an error status.
AxiosMessage(err) ==
    "Request failed with status code " \o NatToString(errorResponse(err).statusCode)

\* The server handles the request of the thunk; its response is on the way back.
serve(slot) ==
    /\ thunks[slot] # Free
    /\ thunks[slot].phase = "sent"
    /\ LET thunk == thunks[slot]
           out == serviceCall(thunk.type, thunk.arg)
       IN /\ keywords' = out.keywords
          /\ thunks' = [thunks EXCEPT ![slot] =
                          IF out.result.kind = "ok"
                          THEN [type |-> thunk.type, arg |-> thunk.arg,
                                phase |-> "answered", status |-> "fulfilled",
                                payload |-> out.payload]
                          ELSE [type |-> thunk.type, arg |-> thunk.arg,
                                phase |-> "answered", status |-> "rejected",
                                message |-> AxiosMessage(out.result)]]
    /\ UNCHANGED <<campaigns, adGroups, reply, dialog, keywordState>>

\* The response reaches the browser: the fulfilled or rejected case runs.
settle(slot) ==
    /\ thunks[slot] # Free
    /\ thunks[slot].phase = "answered"
    /\ LET thunk == thunks[slot]
       IN keywordState' = IF thunk.status = "fulfilled"
                          THEN fulfilled(keywordState, thunk.type, thunk.payload)
                          ELSE rejected(keywordState, thunk.type, thunk.message)
    /\ thunks' = [thunks EXCEPT ![slot] = Free]
    /\ UNCHANGED <<campaigns, adGroups, keywords, reply, dialog>>

\* ---------------------------------------------------------------- SpecSlice: the slice
SliceCampaignId == 1
SliceAdGroupId == 1
SliceKeywordIds == 1..MaxSliceKeywords

SliceCreateData ==
    {[campaignId |-> SliceCampaignId, adGroupId |-> SliceAdGroupId,
      keywordText |-> <<"a">>, matchType |-> "EXACT", bid |-> b] : b \in 0..1}

SliceThunks ==
    {[type |-> "fetchCampaignKeywords", arg |-> SliceCampaignId],
     [type |-> "fetchAdGroupKeywords",
      arg |-> [campaignId |-> SliceCampaignId, adGroupId |-> SliceAdGroupId]]}
    \cup {[type |-> "createKeyword", arg |-> d] : d \in SliceCreateData}
    \cup {[type |-> "updateKeyword",
           arg |-> [id |-> id, campaignId |-> SliceCampaignId,
                    data |-> [status |-> "PAUSED"]]] : id \in SliceKeywordIds}
    \cup {[type |-> "deleteKeyword",
           arg |-> [id |-> id, campaignId |-> SliceCampaignId]] : id \in SliceKeywordIds}

\* The creations the server has not handled yet.
CreationsSent ==
    Cardinality({slot \in 1..MaxPending :
                    thunks[slot].type = "createKeyword" /\ thunks[slot].phase = "sent"})

\* A campaign with one ad group is on the server; the store of the browser is new.
InitSlice ==
    /\ campaigns = {SliceCampaignId}
    /\ adGroups = <<[id |-> SliceAdGroupId, campaignId |-> SliceCampaignId]>>
    /\ keywords = <<>>
    /\ reply = Idle
    /\ dialog = DialogClosed
    /\ keywordState = initialState
    /\ thunks = NoThunks

NextSlice ==
    \/ \E slot \in 1..MaxPending, t \in SliceThunks :
          /\ t.type = "createKeyword" =>
                Len(keywords) + CreationsSent < MaxSliceKeywords
          /\ dispatchThunk(slot, t.type, t.arg)
    \/ \E slot \in 1..MaxPending : serve(slot)
    \/ \E slot \in 1..MaxPending : settle(slot)
    \/ \E i \in 1..Len(keywordState.keywords) : selectKeyword(keywordState.keywords[i])
    \/ selectKeyword(NoKeyword)
    \/ clearError

SpecSlice == InitSlice /\ [][NextSlice]_vars

\* ================================================================ claims
Rows == {keywords[i] : i \in 1..Len(keywords)}

\* A text with at least one character that is not white space.
HasVisibleChar(text) == \E i \in 1..Len(text) : text[i] \notin WhiteSpace

BidMessage == "Bid must be greater than 0"

\* The ad group of the request is absent, or exists under the request's campaign.
AdGroupAbsentOrOwned(data) ==
    Has(data, "adGroupId") =>
        \E i \in 1..Len(adGroups) :
            adGroups[i].id = data.adGroupId /\ adGroups[i].campaignId = data.campaignId

\* The ad group of the request exists under another campaign than the request's.
AdGroupOfOtherCampaign(data) ==
    /\ Has(data, "adGroupId")
    /\ \E i \in 1..Len(adGroups) :
           adGroups[i].id = data.adGroupId /\ adGroups[i].campaignId # data.campaignId

\* C1: every stored keyword with isNegative = false has bid > 0.
\*     (Violated: updateKeyword with {isNegative: false} on a negative keyword
\*     of bid 0 validates no bid, because the patch carries none.)
C1_NonNegativeBidPositive == \A k \in Rows : ~k.isNegative => k.bid > 0

\* C2: every stored keyword whose adGroupId is set references an existing ad
\*     group whose campaignId equals the keyword's campaignId.
C2_AdGroupInSameCampaign ==
    \A k \in Rows :
        Has(k, "adGroupId") =>
            \E i \in 1..Len(adGroups) :
                adGroups[i].id = k.adGroupId /\ adGroups[i].campaignId = k.campaignId

C2_Witness ==
    /\ Cardinality(campaigns) = 2
    /\ \E k \in Rows : Has(k, "adGroupId")
    /\ \E k \in Rows : ~Has(k, "adGroupId") /\ k.campaignId = 2

\* C3: createKeyword with isNegative false or absent: bid <= 0 is rejected with
\*     ValidationError and inserts no row; bid > 0, with a text that is not
\*     blank, an existing campaign and an absent or correctly owned ad group,
\*     succeeds and inserts exactly one row.
C3_CreateBidRule ==
    [][(reply'.op = "createKeyword" /\ ~TruthyBoolean(reply'.data, "isNegative")) =>
         LET data == reply'.data IN
         /\ data.bid <= 0 =>
               /\ reply'.result.kind = "ValidationError"
               /\ keywords' = keywords
         /\ (/\ data.bid > 0
             /\ HasVisibleChar(data.keywordText)
             /\ data.campaignId \in campaigns
             /\ AdGroupAbsentOrOwned(data)) =>
               /\ reply'.result.kind = "ok"
               /\ Len(keywords') = Len(keywords) + 1
               /\ SubSeq(keywords', 1, Len(keywords)) = keywords]_vars

C3_Witness ==
    /\ reply.op = "createKeyword"
    /\ ~TruthyBoolean(reply.data, "isNegative")
    /\ reply.data.bid > 0
    /\ Has(reply.data, "adGroupId")
    /\ reply.result.kind = "ok"
    /\ Len(keywords) = 1

\* C4 (as claimed): createKeyword with an adGroupId whose ad group's campaignId
\*     differs from the request's campaignId is rejected with ValidationError and
\*     inserts no row.
C4_Original ==
    [][(reply'.op = "createKeyword" /\ AdGroupOfOtherCampaign(reply'.data)) =>
         /\ reply'.result.kind = "ValidationError"
         /\ keywords' = keywords]_vars

\* C4 (amended): such a createKeyword is always rejected and inserts no row; the
\*     error is ValidationError whenever the request's campaign exists, and when
\*     it does not exist (with a valid bid and text) it is NotFoundError.
C4_Amended ==
    [][(reply'.op = "createKeyword" /\ AdGroupOfOtherCampaign(reply'.data)) =>
         LET data == reply'.data IN
         /\ reply'.result.kind \in {"ValidationError", "NotFoundError"}
         /\ keywords' = keywords
         /\ data.campaignId \in campaigns => reply'.result.kind = "ValidationError"
         /\ (/\ data.campaignId \notin campaigns
             /\ data.bid > 0
             /\ HasVisibleChar(data.keywordText)) =>
               reply'.result = NotFoundError("Campaign not found")]_vars

C4_Witness ==
    /\ reply.op = "createKeyword"
    /\ AdGroupOfOtherCampaign(reply.data)
    /\ reply.data.campaignId \in campaigns
    /\ reply.result = ValidationError("Ad group does not belong to the specified campaign")

\* C5: createKeyword with isNegative = true and any bid >= 0 is never rejected
\*     because of its bid.
C5_NegativeBidAccepted ==
    (/\ reply.op = "createKeyword"
     /\ Has(reply.data, "isNegative")
     /\ reply.data.isNegative
     /\ reply.data.bid >= 0) =>
        ~(reply.result.kind = "ValidationError" /\ reply.result.msg = BidMessage)

C5_Witness ==
    /\ reply.op = "createKeyword"
    /\ Has(reply.data, "isNegative")
    /\ reply.data.isNegative
    /\ reply.data.bid = 0
    /\ reply.result.kind = "ok"

\* C6: deleteKeyword on an existing keyword succeeds, sets that keyword's status
\*     to ARCHIVED and changes no other field and no other row; on a keyword that
\*     is already ARCHIVED it succeeds and leaves the store unchanged.
C6_DeleteArchivesOnly ==
    [][(/\ reply'.op = "deleteKeyword"
        /\ \E i \in 1..Len(keywords) :
               keywords[i].id = reply'.id /\ keywords[i].campaignId = reply'.campaignId) =>
         /\ reply'.result.kind = "ok"
         /\ Len(keywords') = Len(keywords)
         /\ \A i \in 1..Len(keywords) :
               /\ keywords[i].id # reply'.id => keywords'[i] = keywords[i]
               /\ keywords[i].id = reply'.id =>
                     /\ keywords'[i] = [keywords[i] EXCEPT !.status = "ARCHIVED"]
                     /\ keywords[i].status = "ARCHIVED" => keywords' = keywords
         /\ UNCHANGED <<campaigns, adGroups>>]_vars

C6_Witness ==
    /\ reply.op = "deleteKeyword"
    /\ reply.result.kind = "ok"
    /\ Len(keywords) = 2
    /\ \E i, j \in 1..Len(keywords) :
           /\ keywords[i].id = reply.id /\ keywords[i].status = "ARCHIVED"
           /\ keywords[j].id # reply.id /\ keywords[j].status = "PAUSED"

\* C7: getKeywordById, updateKeyword and deleteKeyword with an (id, campaignId)
\*     under which no keyword is stored, also when the id exists under another
\*     campaign, fail with NotFoundError and leave the store unchanged.
C7_ScopedLookupNotFound ==
    [][(/\ reply'.op \in {"getKeywordById", "updateKeyword", "deleteKeyword"}
        /\ ~\E i \in 1..Len(keywords) :
               keywords[i].id = reply'.id /\ keywords[i].campaignId = reply'.campaignId) =>
         /\ reply'.result.kind = "NotFoundError"
         /\ UNCHANGED <<campaigns, adGroups, keywords>>]_vars

C7_Witness ==
    /\ reply.op = "updateKeyword"
    /\ reply.result.kind = "NotFoundError"
    /\ \E k \in Rows : k.id = reply.id /\ k.campaignId # reply.campaignId

C9_UpdateBidAgainstResultingFlag ==
    [][(reply'.op = "updateKeyword" /\ Has(reply'.data, "bid")) =>
         \A i \in 1..Len(keywords) :
            (keywords[i].id = reply'.id /\ keywords[i].campaignId = reply'.campaignId) =>
               LET data == reply'.data
                   resulting == IF Has(data, "isNegative") THEN data.isNegative
                                ELSE keywords[i].isNegative
               IN /\ (~resulting /\ data.bid <= 0) =>
                         /\ reply'.result.kind = "ValidationError"
                         /\ keywords' = keywords
                  /\ resulting =>
                         ~(reply'.result.kind = "ValidationError"
                           /\ reply'.result.msg = BidMessage)]_vars

C9_Witness ==
    /\ reply.op = "updateKeyword"
    /\ Has(reply.data, "bid") /\ reply.data.bid = 0
    /\ Has(reply.data, "isNegative") /\ ~reply.data.isNegative
    /\ reply.result = ValidationError(BidMessage)
    /\ \E k \in Rows : k.id = reply.id /\ k.isNegative

\* C10: every stored keywordText is non-empty and has no leading or trailing
\*      white space; createKeyword and updateKeyword reject a text that is blank
\*      with ValidationError and store the trimmed text otherwise.
C10_TextTrimmedNonEmpty ==
    /\ \A k \in Rows :
          /\ k.keywordText # <<>>
          /\ Head(k.keywordText) \notin WhiteSpace
          /\ k.keywordText[Len(k.keywordText)] \notin WhiteSpace
    /\ (reply.op = "createKeyword" /\ ~HasVisibleChar(reply.data.keywordText)) =>
          reply.result.kind = "ValidationError"
    /\ (reply.op = "createKeyword" /\ reply.result.kind = "ok") =>
          keywords[Len(keywords)].keywordText = trim(reply.data.keywordText)
    /\ (reply.op = "updateKeyword" /\ Has(reply.data, "keywordText")) =>
          \A k \in Rows :
             (k.id = reply.id /\ k.campaignId = reply.campaignId) =>
                /\ ~HasVisibleChar(reply.data.keywordText) =>
                      reply.result.kind = "ValidationError"
                /\ reply.result.kind = "ok" =>
                      k.keywordText = trim(reply.data.keywordText)

C10_Witness ==
    /\ reply.op = "updateKeyword"
    /\ reply.result.kind = "ok"
    /\ Has(reply.data, "keywordText")
    /\ reply.data.keywordText = <<" ", "a">>
    /\ \E k \in Rows : k.id = reply.id /\ k.keywordText = <<"a">>

\* C11: a keyword row that exists keeps existing, with the same id, campaignId
\*      and adGroupId (set or not set), through every step of every operation.
C11_RowsPersistWithParents ==
    [][/\ Len(keywords') >= Len(keywords)
       /\ \A i \in 1..Len(keywords) :
             /\ keywords'[i].id = keywords[i].id
             /\ keywords'[i].campaignId = keywords[i].campaignId
             /\ Has(keywords'[i], "adGroupId") <=> Has(keywords[i], "adGroupId")
             /\ Has(keywords[i], "adGroupId") =>
                   keywords'[i].adGroupId = keywords[i].adGroupId]_vars

C11_Witness ==
    /\ reply.op = "deleteKeyword"
    /\ reply.result.kind = "ok"
    /\ Len(keywords) = MaxKeywords
    /\ \E k \in Rows : k.id = reply.id /\ Has(k, "adGroupId") /\ k.status = "ARCHIVED"
    /\ \E k \in Rows : k.id # reply.id /\ k.campaignId # reply.campaignId

\* C12: a deleteKeyword step changes no status except from ACTIVE or PAUSED to
\*      ARCHIVED; an updateKeyword whose patch is a status of ACTIVE or PAUSED,
\*      on a stored keyword that is ACTIVE or PAUSED, succeeds in every state
\*      and leaves the keyword with the patch's status, in both directions.
C12_StatusTransitions ==
    [][/\ reply'.op = "deleteKeyword" =>
             \A i \in 1..Len(keywords) :
                keywords'[i].status # keywords[i].status =>
                   /\ keywords[i].status \in {"ACTIVE", "PAUSED"}
                   /\ keywords'[i].status = "ARCHIVED"
                   /\ keywords[i].id = reply'.id
       /\ (/\ reply'.op = "updateKeyword"
           /\ DOMAIN reply'.data = {"status"}
           /\ reply'.data.status \in {"ACTIVE", "PAUSED"}) =>
             \A i \in 1..Len(keywords) :
                (/\ keywords[i].id = reply'.id
                 /\ keywords[i].campaignId = reply'.campaignId
                 /\ keywords[i].status \in {"ACTIVE", "PAUSED"}) =>
                   /\ reply'.result.kind = "ok"
                   /\ keywords'[i].status = reply'.data.status]_vars

\* A keyword paused by an update, next to one that a delete archived.
C12_Witness ==
    /\ reply.op = "updateKeyword"
    /\ reply.result.kind = "ok"
    /\ reply.data = [status |-> "PAUSED"]
    /\ \E k \in Rows : k.id = reply.id /\ k.status = "PAUSED"
    /\ \E k \in Rows : k.id # reply.id /\ k.status = "ARCHIVED"

\* The listing's request supplies the filter f and the row k matches it.
MatchesSupplied(k, filters) ==
    /\ Has(filters, "adGroupId") =>
          Has(k, "adGroupId") /\ k.adGroupId = filters.adGroupId
    /\ \A f \in DOMAIN filters \cap {"matchType", "status", "isNegative"} :
          k[f] = filters[f]

\* C13: getCampaignKeywords returns exactly the stored keywords of the campaign
\*      that match every supplied filter, each once, the later created first
\*      (ARCHIVED ones included when no status filter is supplied).
\*      (Violated: a supplied adGroupId of 0 is dropped from the where object,
\*      and the listing returns the campaign's keywords of every ad group.)
C13_ListingMatchesFilters ==
    reply.op = "getCampaignKeywords" =>
       LET value == reply.value
           Position(k) == CHOOSE i \in 1..Len(keywords) : keywords[i] = k
       IN /\ {value[i] : i \in 1..Len(value)} =
                {k \in Rows : k.campaignId = reply.campaignId
                              /\ MatchesSupplied(k, reply.filters)}
          /\ \A i, j \in 1..Len(value) :
                i < j => Position(value[i]) > Position(value[j])

\* The entry passes every check of createKeyword in the current store.
PassesCreateChecks(data) ==
    /\ TruthyBoolean(data, "isNegative") \/ data.bid > 0
    /\ HasVisibleChar(data.keywordText)
    /\ data.campaignId \in campaigns
    /\ AdGroupAbsentOrOwned(data)

\* The row is the one createKeyword stores for the entry.
RowOfEntry(row, data) ==
    /\ row.campaignId = data.campaignId
    /\ row.keywordText = trim(data.keywordText)
    /\ row.matchType = data.matchType
    /\ row.bid = data.bid
    /\ row.isNegative = TruthyBoolean(data, "isNegative")
    /\ Has(row, "adGroupId") = Has(data, "adGroupId")

\* C14: a bulkCreateKeywords step keeps the rows there were and appends, for
\*      every entry that passes createKeyword's checks, its row exactly once,
\*      whether or not another entry of the list, earlier or later, fails; it
\*      appends nothing else.
C14_BulkHasNoRollback ==
    [][reply'.op = "bulkCreateKeywords" =>
         LET list == reply'.keywords
             passing == {i \in 1..Len(list) : PassesCreateChecks(list[i])}
             new == SubSeq(keywords', Len(keywords) + 1, Len(keywords'))
         IN /\ SubSeq(keywords', 1, Len(keywords)) = keywords
            /\ Len(new) = Cardinality(passing)
            /\ \A i \in passing :
                  Cardinality({j \in 1..Len(new) : RowOfEntry(new[j], list[i])}) =
                  Cardinality({k \in passing : RowOfEntry(CreateData(list[k]), list[i])})
            /\ (reply'.result.kind = "ok") = (passing = 1..Len(list))]_vars

\* The first entry failed and the second, valid, entry of the same call is stored.
C14_Witness ==
    /\ reply.op = "bulkCreateKeywords"
    /\ reply.result = ValidationError(BidMessage)
    /\ Len(reply.keywords) = 2
    /\ reply.keywords[1].bid = 0
    /\ PassesCreateChecks(reply.keywords[2])
    /\ Len(keywords) = 1
    /\ RowOfEntry(keywords[1], reply.keywords[2])

\* The text is a rendering with two decimals of a hundredth nearest to num / den.
RoundedTo2(text, num, den) ==
    \E n \in {(100 * num) \div den, ((100 * num) \div den) + 1} :
       /\ 2 * Abs((n * den) - (100 * num)) <= den
       /\ text = NatToString(n \div 100) \o "." \o NatToString((n % 100) \div 10)
                   \o NatToString(n % 10)

\* C15: getKeywordStats on an existing keyword succeeds; ctr, cvr, cpc and acos
\*      are "0.00" when impressions, clicks, clicks and sales are 0, and else
\*      clicks/impressions*100, conversions/clicks*100, spend/clicks and
\*      spend/sales*100 rounded to 2 decimals (1000, 50, 5, 25.00, 100.00 gives
\*      "5.00", "10.00", "0.50", "25.00").
C15_StatsGuardedAndRounded ==
    (reply.op = "getKeywordStats" /\ \E k \in Rows : k.id = reply.id) =>
       \A k \in Rows :
          k.id = reply.id =>
             LET v == reply.value IN
             /\ reply.result.kind = "ok"
             /\ IF k.impressions = 0 THEN v.ctr = "0.00"
                ELSE RoundedTo2(v.ctr, k.clicks * 100, k.impressions)
             /\ IF k.clicks = 0 THEN v.cvr = "0.00" /\ v.cpc = "0.00"
                ELSE /\ RoundedTo2(v.cvr, k.conversions * 100, k.clicks)
                     /\ RoundedTo2(v.cpc, k.spend, 100 * k.clicks)
             /\ IF k.sales = 0 THEN v.acos = "0.00"
                ELSE RoundedTo2(v.acos, k.spend * 100, k.sales)
             /\ (/\ k.impressions = 1000 /\ k.clicks = 50 /\ k.conversions = 5
                 /\ k.spend = 2500 /\ k.sales = 10000) =>
                   /\ v.ctr = "5.00" /\ v.cvr = "10.00"
                   /\ v.cpc = "0.50" /\ v.acos = "25.00"

\* Zero sales next to a ratio that rounds up: 2 / 3 * 100.
C15_Witness ==
    /\ reply.op = "getKeywordStats"
    /\ reply.result.kind = "ok"
    /\ \E k \in Rows :
          /\ k.id = reply.id
          /\ k.impressions = 3 /\ k.clicks = 2 /\ k.conversions = 1
          /\ k.spend = 2500 /\ k.sales = 0
    /\ reply.value.ctr = "66.67"
    /\ reply.value.cvr = "50.00"
    /\ reply.value.cpc = "12.50"
    /\ reply.value.acos = "0.00"

\* C16: every error handed to errorHandler gives a body {status: "error",
\*      message} and a status code by the kind of the error: 400 for a
\*      ValidationError, 404 for a NotFoundError, 409 for a ConflictError; the
\*      message of a ValidationError or NotFoundError is the error's own.
C16_ErrorEnvelope ==
    [][reply'.op = "response" =>
         LET err == reply.result IN
         /\ DOMAIN reply'.body = {"status", "message"}
         /\ reply'.body.status = "error"
         /\ reply'.body.message \in STRING
         /\ reply'.statusCode \in 400..599
         /\ err.kind = "ValidationError" => reply'.statusCode = 400
         /\ err.kind = "NotFoundError" => reply'.statusCode = 404
         /\ err.kind = "ConflictError" => reply'.statusCode = 409
         /\ err.kind \in {"ValidationError", "NotFoundError"} =>
               reply'.body.message = err.msg]_vars

C16_Witness ==
    /\ reply.op = "response"
    /\ reply.err = ValidationError("Ad group does not belong to the specified campaign")
    /\ reply.statusCode = 400
    /\ reply.body.message = "Ad group does not belong to the specified campaign"

\* C17: every stored keyword, negative or not, has bid >= 0.
\*      (Violated: createKeyword checks no bid at all when isNegative is true,
\*      and a negative keyword is stored with a bid below 0.)
C17_BidNotBelowZero == \A k \in Rows : k.bid >= 0

\* C18: a successful createKeyword appends exactly one row and returns it; the
\*      row has status ACTIVE, every counter 0, isNegative false when the request
\*      supplies none, and the campaignId, adGroupId, matchType and bid of the
\*      request.
C18_CreateResult ==
    [][(reply'.op = "createKeyword" /\ reply'.result.kind = "ok") =>
         LET data == reply'.data
             row == keywords'[Len(keywords')]
         IN /\ Len(keywords') = Len(keywords) + 1
            /\ SubSeq(keywords', 1, Len(keywords)) = keywords
            /\ reply'.value = <<row>>
            /\ row.status = "ACTIVE"
            /\ \A f \in {"impressions", "clicks", "conversions", "spend", "sales"} :
                  row[f] = 0
            /\ ~Has(data, "isNegative") => row.isNegative = FALSE
            /\ row.campaignId = data.campaignId
            /\ row.matchType = data.matchType
            /\ row.bid = data.bid
            /\ Has(row, "adGroupId") = Has(data, "adGroupId")
            /\ Has(data, "adGroupId") => row.adGroupId = data.adGroupId]_vars

C18_Witness ==
    /\ reply.op = "createKeyword"
    /\ reply.result.kind = "ok"
    /\ ~Has(reply.data, "isNegative")
    /\ Has(reply.data, "adGroupId")
    /\ reply.data.matchType = "PHRASE"
    /\ reply.data.bid = MaxBid
    /\ reply.value = <<keywords[Len(keywords)]>>
    /\ keywords[Len(keywords)].adGroupId = reply.data.adGroupId

\* The defaultBid a dispatched thunk carries.
ThunkDefaultBid(thunk) ==
    IF thunk.type = "updateAdGroup" THEN thunk.data.defaultBid ELSE thunk.defaultBid

ThunkName(thunk) == IF thunk.type = "updateAdGroup" THEN thunk.data.name ELSE thunk.name

\* C19: the submit of the ad-group form dispatches createAdGroup or
\*      updateAdGroup only when the trimmed name is not empty and the parsed
\*      defaultBid is a number above 0, and then with that name and bid;
\*      otherwise it sets an error and dispatches nothing. No handler of the
\*      form dispatches a defaultBid that is not above 0.
C19_FormDispatchesPositiveBid ==
    [][/\ \A i \in 1..Len(dialog'.dispatched) :
             /\ dialog'.dispatched[i].type \in {"createAdGroup", "updateAdGroup"}
             /\ ThunkDefaultBid(dialog'.dispatched[i]) > 0
             /\ dialog'.handler = "handleSubmit"
       /\ dialog'.handler = "handleSubmit" =>
             LET name == trim(dialog.formData.name)
                 bid == parseFloat(dialog.formData.defaultBid)
                 text == dialog.formData.defaultBid
             IN IF name # <<>> /\ ~bid.nan /\ bid.value > 0
                THEN /\ Len(dialog'.dispatched) = 1
                     /\ ThunkDefaultBid(dialog'.dispatched[1]) = bid.value
                     /\ ThunkName(dialog'.dispatched[1]) = name
                     /\ text \notin {<<>>, <<"0">>, <<"-", "1">>, <<"x">>, <<"x", "1">>}
                ELSE /\ dialog'.dispatched = <<>>
                     /\ dialog'.error \in {"Ad group name is required",
                                           "Default bid must be greater than 0"}
                     /\ dialog'.formData = dialog.formData
                     /\ dialog'.open]_vars

\* An update dispatched for the ad group under edit with the bid text "10",
\* rejected by the server.
C19_Witness ==
    /\ dialog.handler = "handleSubmit"
    /\ dialog.error = "Failed to save ad group"
    /\ dialog.formData = [name |-> <<"a", " ">>, defaultBid |-> <<"1", "0">>]
    /\ dialog.dispatched =
          <<[type |-> "updateAdGroup", id |-> 1, campaignId |-> 1,
             data |-> [name |-> <<"a">>, defaultBid |-> 10]]>>

\* The request names an ad group (0 names none) that is not stored.
AdGroupNotStored(data) ==
    /\ Has(data, "adGroupId")
    /\ data.adGroupId # 0
    /\ ~\E i \in 1..Len(adGroups) : adGroups[i].id = data.adGroupId

\* C20: createKeyword reports the first check that fails, in the order bid,
\*      keyword text, campaign existence, ad-group existence, ad-group
\*      ownership: an invalid bid or a blank text gives ValidationError also when
\*      the campaign or the ad group is missing, and a missing campaign gives
\*      NotFoundError "Campaign not found" whatever the ad group is.
C20_FirstFailingCheck ==
    reply.op = "createKeyword" =>
       LET data == reply.data
           badBid == ~TruthyBoolean(data, "isNegative") /\ data.bid <= 0
           blank == ~HasVisibleChar(data.keywordText)
           noCampaign == data.campaignId \notin campaigns
       IN /\ badBid => reply.result = ValidationError(BidMessage)
          /\ (~badBid /\ blank) =>
                reply.result = ValidationError("Keyword text cannot be empty")
          /\ (~badBid /\ ~blank /\ noCampaign) =>
                reply.result = NotFoundError("Campaign not found")
          /\ (~badBid /\ ~blank /\ ~noCampaign /\ AdGroupNotStored(data)) =>
                reply.result = NotFoundError("Ad group not found")
          /\ (~badBid /\ ~blank /\ ~noCampaign /\ AdGroupOfOtherCampaign(data)) =>
                reply.result =
                   ValidationError("Ad group does not belong to the specified campaign")
          /\ ((badBid \/ blank) /\ (noCampaign \/ AdGroupNotStored(data))) =>
                reply.result.kind = "ValidationError"

\* A blank text, a campaign that is not stored and an ad group that is not
\* stored in one request: the text is what is reported.
C20_Witness ==
    /\ reply.op = "createKeyword"
    /\ reply.data.bid > 0
    /\ reply.data.keywordText = <<" ">>
    /\ reply.data.campaignId \notin campaigns
    /\ AdGroupNotStored(reply.data)
    /\ reply.result = ValidationError("Keyword text cannot be empty")

\* C22: a keyword whose status is ARCHIVED keeps that status through every
\*      later updateKeyword and deleteKeyword.
\*      (Violated: updateKeyword hands the status of the patch to the store
\*      whatever the stored status is, and {status: ACTIVE} revives the row.)
C22_ArchivedIsFinal ==
    [][\A i \in 1..Len(keywords) :
          keywords[i].status = "ARCHIVED" => keywords'[i].status = "ARCHIVED"]_vars

\* C24: the keywords list of the keyword slice never holds two entries with
\*      the same id.
\*      (Violated: a listing the server computed after it stored a keyword can
\*      reach the browser before the response of that keyword's creation; the
\*      listing is taken over and createKeyword.fulfilled pushes the keyword
\*      a second time.)
C24_NoDuplicateIds ==
    \A i, j \in 1..Len(keywordState.keywords) :
       i # j => keywordState.keywords[i].id # keywordState.keywords[j].id

\* C23: loading is true in every state in which a dispatched thunk has not
\*      settled yet.
\*      (Violated: loading is one flag that every fulfilled or rejected case
\*      sets to false, so the first of two overlapping thunks to settle clears
\*      it while the other is still in flight.)
C23_LoadingWhilePending ==
    (\E slot \in 1..MaxPending : thunks[slot] # Free) => keywordState.loading

\* The step settles the thunk of the slot, a fulfilled one of the given type.
SettlesFulfilled(slot, type) ==
    /\ IF thunks[slot] = Free THEN FALSE
       ELSE /\ thunks[slot].phase = "answered"
            /\ thunks[slot].status = "fulfilled"
            /\ thunks[slot].type = type
    /\ thunks'[slot] = Free

\* The indexes at which the two lists, of the same length, differ.
ChangedAt(old, new) == {i \in 1..Len(old) : new[i] # old[i]}

\* C21: in the keyword slice a fulfilled createKeyword appends its payload, a
\*      fulfilled updateKeyword replaces at most one entry, one whose id is the
\*      payload's, by the payload, and a fulfilled deleteKeyword removes at most
\*      one entry, one whose id is the payload; the other entries keep their
\*      value and order, and selectedKeyword is not changed.
\*      (Violated: when the list holds an id twice, see C24, deleteKeyword
\*      removes both entries.)
C21_OneEntryChanged ==
    [][\A slot \in 1..MaxPending :
          LET old == keywordState.keywords
              new == keywordState'.keywords
              payload == thunks[slot].payload
          IN /\ SettlesFulfilled(slot, "createKeyword") =>
                   /\ new = Append(old, payload)
                   /\ keywordState'.selectedKeyword = keywordState.selectedKeyword
             /\ SettlesFulfilled(slot, "updateKeyword") =>
                   /\ Len(new) = Len(old)
                   /\ Cardinality(ChangedAt(old, new)) <= 1
                   /\ \A i \in ChangedAt(old, new) :
                         old[i].id = payload.id /\ new[i] = payload
                   /\ keywordState'.selectedKeyword = keywordState.selectedKeyword
             /\ SettlesFulfilled(slot, "deleteKeyword") =>
                   /\ Len(new) >= Len(old) - 1
                   /\ LET Other(k) == k.id # payload IN new = SelectSeq(old, Other)
                   /\ keywordState'.selectedKeyword = keywordState.selectedKeyword]_vars

====
